---- MODULE Spec2Model ----
\* A model of the nestor Jenkins client (lib/jenkins.js): the progressive
\* console stream, the build trigger, the buildBy fan-out and UDP discovery.
EXTENDS Integers, Sequences, FiniteSets, TLC

\* ------------------------------------------------------------------ bounds

\* Requests one console stream may issue (initial request included).
MaxRequests == 3

\* discover calls made on one client.
MaxDiscovers == 2

\* key=value items in the params of one build call.
MaxParams == 2

\* Jobs the dashboard lists.
MaxJobs == 2

\* ------------------------------------------------------------- vocabulary

Jobs == {"job1", "job2"}

\* Header absent from a response (undefined in the code).
Absent == "absent"

\* parseInt's result on a string with no leading digit.
NaN == -1

\* const INTERVAL of consoleStream.
INTERVAL == 1000

\* opts.interval values a caller passes; 0 stands for "no opts / no interval".
Intervals == {0, 250}

NoErr == [type |-> "none", job |-> ""]
TransportErr == [type |-> "transport", job |-> ""]
AuthFailErr == [type |-> "authFail", job |-> ""]
AuthRequireErr == [type |-> "authRequire", job |-> ""]
UnexpectedStatusErr == [type |-> "unexpectedStatus", job |-> ""]
JobNotFoundErr(jobName) == [type |-> "jobNotFound", job |-> jobName]
ParamsRequireErr(jobName) == [type |-> "paramsRequire", job |-> jobName]

\* ------------------------------------------------- decimal text <-> number

Digits == <<"0", "1", "2", "3", "4", "5", "6", "7", "8", "9">>

DigitVal(c) == CHOOSE d \in 0..9 : Digits[d + 1] = c

IsDigit(c) == \E d \in 0..9 : Digits[d + 1] = c

\* The server renders the text size as a decimal header value.
RECURSIVE IntToStr(_)
IntToStr(n) ==
  IF n < 10 THEN <<Digits[n + 1]>>
  ELSE IntToStr(n \div 10) \o <<Digits[(n % 10) + 1]>>

RECURSIVE ParseDigits(_, _)
ParseDigits(s, acc) ==
  IF s = <<>> \/ ~IsDigit(Head(s)) THEN acc
  ELSE ParseDigits(Tail(s), acc * 10 + DigitVal(Head(s)))

\* parseInt(s, 10): the leading decimal digits of s, NaN when there are none
\* (an absent header is the empty text).
ParseInt(s) ==
  IF s = <<>> \/ ~IsDigit(Head(s)) THEN NaN ELSE ParseDigits(s, 0)

\* ---------------------------------------------------------------- state

VARIABLES
  opts,       \* this.opts: the status handlers and query strings shared by all calls
  csPc,       \* consoleStream: position of the polling loop
  csJob,      \* consoleStream: jobName
  csInterval, \* consoleStream: opts.interval (0 when not given)
  result,     \* consoleStream: the closure variable `result` of _success
  log,        \* consoleStream: what it did, in order: requests issued, responses
              \* received, events emitted on the stream, invocations of cb
  dHost,      \* discover, per call: host
  socket,     \* discover, per call: the UDP socket ("none", "open", "closed")
  sendCb,     \* discover, per call: the callback of socket.send
              \* ("none", "pending", "ok", "err")
  timer,      \* discover, per call: the timer set with setTimeout
              \* ("none", "pending", "fired")
  dLog,       \* discover, per call: socket.close() calls and invocations of cb, in order
  builds,     \* build: the calls of the current round, in call order, each with
              \* its arguments, the request it issued and what its cb received
  bbPc,       \* buildBy: "idle", "dashboard" (read in flight), "building", "done"
  bbCriteria, \* buildBy: criteria
  bbData,     \* buildBy: data handed to dashboardCb
  bbCompleted,\* buildBy: the counter `completed` of async.each
  bbCallback, \* buildBy: the callback async.each holds ("cb", or "noop" once it failed)
  bbLog,      \* buildBy: builds triggered, builds completed and invocations of cb, in order
  called,     \* the last call of _colorStatus, _dashboardStatus or of executor's
              \* per-executor mapping: its arguments and what it returned
  mJobName,   \* monitor: opts.jobName ("" when not given)
  mReads,     \* monitor: the dashboard reads started, in order ("inflight", "done")
  mTicks,     \* monitor: schedule ticks of the cron job so far
  mLog,       \* monitor: reads started and invocations of cb, in order
  ops         \* operations called one after the other on one client: the request
              \* each one issued and the handler its answer ran

bbVars == <<bbPc, bbCriteria, bbData, bbCompleted, bbCallback, bbLog>>

csVars == <<csPc, csJob, csInterval, result, log>>

dVars == <<dHost, socket, sendCb, timer, dLog>>

mVars == <<mJobName, mReads, mTicks, mLog>>

xVars == <<called, mVars, ops>>

vars == <<opts, csVars, dVars, builds, bbVars, xVars>>

\* ------------------------------------------------------- this.opts (shared)

StatusCodes == {200, 201, 400, 401, 403, 404, 405, 500}

NoHandler == [fn |-> "none", op |-> "", job |-> ""]

Handler(op, fn, jobName) == [fn |-> fn, op |-> op, job |-> jobName]

NoQueryStrings == [kind |-> "none"]

\* The constructor: handlers for 401 and 403 only, no query strings.
InitOpts ==
  [handlers |-> [c \in StatusCodes |->
                   CASE c = 401 -> Handler("Jenkins", "_authFail", "")
                     [] c = 403 -> Handler("Jenkins", "_authRequire", "")
                     [] OTHER -> NoHandler],
   queryStrings |-> NoQueryStrings,
   headers |-> Absent,
   body |-> <<Absent>>]

\* bag.request's dispatch: the handler registered for the status at the time the
\* response arrives (opts is passed by reference), NoHandler when there is none.
LookupHandler(status) ==
  IF status \in StatusCodes THEN opts.handlers[status] ELSE NoHandler

\* ------------------------------------------------------------ consoleStream

ConsoleBodies == {"", "a", "b"}

TextSizes == {0, 10}

RequestEntry(via, jobName, qs, delay) ==
  [kind |-> "request", via |-> via, job |-> jobName, qs |-> qs, delay |-> delay]
ResponseEntry(r) == [kind |-> "response", r |-> r]
DataEvent(body) == [kind |-> "data", body |-> body]
EndEvent == [kind |-> "end"]
CbCall(err) == [kind |-> "cb", err |-> err]

IsRequest(e) == e.kind = "request"
IsResponse(e) == e.kind = "response"
IsEvent(e) == e.kind \in {"data", "end"}
IsCb(e) == e.kind = "cb"

requests == SelectSeq(log, IsRequest)
responses == SelectSeq(log, IsResponse)
events == SelectSeq(log, IsEvent)
cbCalls == SelectSeq(log, IsCb)

NoResult == [err |-> FALSE, status |-> 0, body |-> "", more |-> Absent, size |-> <<>>]

ErrorResponse == [err |-> TRUE, status |-> 0, body |-> "", more |-> Absent, size |-> <<>>]

\* 200 answers of the progressive text endpoint: x-more-data and x-text-size set.
OkResponses ==
  {[err |-> FALSE, status |-> 200, body |-> b, more |-> m, size |-> IntToStr(n)] :
     b \in ConsoleBodies, m \in {"true", "false"}, n \in TextSizes}
  \cup {[err |-> FALSE, status |-> 200, body |-> "a", more |-> Absent, size |-> <<>>]}

\* Other answers: their body is an error page, the two headers are absent.
StatusResponses ==
  {[err |-> FALSE, status |-> s, body |-> b, more |-> Absent, size |-> <<>>] :
     s \in {401, 403, 404, 500}, b \in {"", "page"}}

\* What the server may answer to request number n of a stream: the stream's
\* requests are capped at MaxRequests, so the last one is not told to go on.
Answers(n) ==
  {r \in OkResponses \cup StatusResponses \cup {ErrorResponse} :
     r.more = "true" => n < MaxRequests}

\* this.opts.queryStrings = { start: 0 }
StartQueryStrings == [kind |-> "start", start |-> 0]

\* if (result.body) stream.emit('data', result.body)
EmitData(lg, r) == IF r.body # "" THEN Append(lg, DataEvent(r.body)) ELSE lg

\* Mutant: every value but 'false' keeps the loop going.
MoreDataUnlessFalse(r) == r.more # "false"

\* The test of async.whilst.
MoreData(r) == r.more = "true"

\* Mutant: the offset is read from the result of the round before.
PollQueryStringsStale(r) == [kind |-> "start", start |-> ParseInt(result.size)]

\* qs of the next poll: { start: parseInt(result.headers['x-text-size'], 10) }
PollQueryStrings(r) == [kind |-> "start", start |-> ParseInt(r.size)]

\* setTimeout(cb, (opts && opts.interval) ? opts.interval : INTERVAL)
TimerDelay == IF csInterval # 0 THEN csInterval ELSE INTERVAL

\* Mutant: the error of request.get is not looked at.
PollFailedIgnored(r) == FALSE

\* if (err) of the request.get callback.
PollFailed(r) == r.err

\* The final callback of async.whilst: stream.emit('end'); cb(err).
WhilstEnd(lg, err) == lg \o <<EndEvent, CbCall(err)>>

\* Mutant: fn arms the next round without waiting for the answer to its request.
WhilstEager(r, lg, delay) ==
  IF r.more = "true"
  THEN /\ log' = Append(lg, RequestEntry("request.get", csJob,
                                         [kind |-> "start", start |-> ParseInt(r.size)], delay))
       /\ csPc' = "wait"
  ELSE /\ log' = lg \o <<EndEvent, CbCall(NoErr)>>
       /\ csPc' = "done"

\* One round of async.whilst(test, fn, callback) on result r, with the log lg so
\* far: test() true runs fn, which issues request.get; false runs callback().
Whilst(r, lg, delay) ==
  IF MoreData(r)
  THEN /\ log' = Append(lg, RequestEntry("request.get", csJob, PollQueryStrings(r), delay))
       /\ csPc' = "poll"
  ELSE /\ log' = WhilstEnd(lg, NoErr)
       /\ csPc' = "done"

\* consoleStream(jobName, opts, cb) up to its return: the options are written to
\* this.opts and the first request is deferred with process.nextTick.
ConsoleStream(jobName, interval) ==
  /\ csPc = "idle"
  /\ csPc' = "tick"
  /\ csJob' = jobName
  /\ csInterval' = interval
  /\ opts' = [opts EXCEPT !.queryStrings = StartQueryStrings,
                          !.handlers[200] = Handler("consoleStream", "_success", jobName),
                          !.handlers[404] = Handler("consoleStream", "_notFound", jobName)]
  /\ UNCHANGED <<result, log, dVars, builds, bbVars, xVars>>

\* The nextTick callback: bag.request('get', url, self.opts, cb).
ConsoleTick ==
  /\ csPc = "tick"
  /\ csPc' = "initial"
  /\ log' = Append(log, RequestEntry("bag.request", csJob, opts.queryStrings, 0))
  /\ UNCHANGED <<opts, csJob, csInterval, result, dVars, builds, bbVars, xVars>>

\* The error a status handler other than _success passes to cb.
HandlerError(h) ==
  CASE h.fn = "_notFound" -> JobNotFoundErr(h.job)
    [] h.fn = "_paramsRequire" -> ParamsRequireErr(h.job)
    [] h.fn = "_authFail" -> AuthFailErr
    [] h.fn = "_authRequire" -> AuthRequireErr
    [] OTHER -> UnexpectedStatusErr

\* The answer to the first request, dispatched by bag.request: a transport error
\* goes to cb, a status to its handler, a status without handler to cb as error.
ConsoleInitialResponse(r) ==
  /\ csPc = "initial"
  /\ r \in Answers(Len(requests))
  /\ LET h == LookupHandler(r.status)
         lg == Append(log, ResponseEntry(r)) IN
       IF r.err
       THEN /\ log' = Append(lg, CbCall(TransportErr))
            /\ csPc' = "done"
            /\ UNCHANGED result
       ELSE IF h.fn = "_success"
       THEN /\ result' = r
            /\ Whilst(r, EmitData(lg, r), 0)
       ELSE /\ log' = Append(lg, CbCall(HandlerError(h)))
            /\ csPc' = "done"
            /\ UNCHANGED result
  /\ UNCHANGED <<opts, csJob, csInterval, dVars, builds, bbVars, xVars>>

\* The callback of request.get in the whilst body: an error ends the loop, any
\* answer (its status is not looked at) becomes `result` and arms the timer.
ConsolePollResponse(r) ==
  /\ csPc = "poll"
  /\ r \in Answers(Len(requests))
  /\ LET lg == Append(log, ResponseEntry(r)) IN
       IF PollFailed(r)
       THEN /\ log' = WhilstEnd(lg, TransportErr)
            /\ csPc' = "done"
            /\ UNCHANGED result
       ELSE /\ result' = r
            /\ log' = EmitData(lg, r)
            /\ csPc' = "wait"
  /\ UNCHANGED <<opts, csJob, csInterval, dVars, builds, bbVars, xVars>>

\* The timer fires: cb of the whilst body, i.e. the next round of async.whilst.
ConsoleTimer ==
  /\ csPc = "wait"
  /\ Whilst(result, log, TimerDelay)
  /\ UNCHANGED <<opts, csJob, csInterval, result, dVars, builds, bbVars, xVars>>

\* -------------------------------------------------------------------- build

\* Texts are sequences of one-character strings.
\* s.split(sep) for a one-character separator.
RECURSIVE SplitFrom(_, _, _)
SplitFrom(s, sep, cur) ==
  IF s = <<>> THEN <<cur>>
  ELSE IF Head(s) = sep THEN <<cur>> \o SplitFrom(Tail(s), sep, <<>>)
  ELSE SplitFrom(Tail(s), sep, Append(cur, Head(s)))

Split(s, sep) == SplitFrom(s, sep, <<>>)

\* keyVal[1] of an item without '='.
Undefined == <<Absent>>

\* Mutant: the value is taken for the name as well.
ParamOfValueOnly(param) ==
  LET keyVal == Split(param, "=") IN
    [name |-> IF Len(keyVal) >= 2 THEN keyVal[2] ELSE Undefined,
     value |-> IF Len(keyVal) >= 2 THEN keyVal[2] ELSE Undefined]

\* { name: keyVal[0], value: keyVal[1] } of one item of params.
ParamOf(param) ==
  LET keyVal == Split(param, "=") IN
    [name |-> keyVal[1], value |-> IF Len(keyVal) >= 2 THEN keyVal[2] ELSE Undefined]

\* json.parameter: empty when params is falsy (null or the empty text), else one
\* entry per '&'-separated item, pushed in order.
ParseParams(params) ==
  IF params = <<>> THEN <<>>
  ELSE LET items == Split(params, "&") IN [i \in 1..Len(items) |-> ParamOf(items[i])]

\* this.opts.queryStrings = { token: 'nestor', json: JSON.stringify(json) }; the
\* record stands for the JSON text of json.
BuildQueryStrings(params) ==
  [kind |-> "build", token |-> "nestor", json |-> [parameter |-> ParseParams(params)]]

\* this.opts after build has written its query strings and its four handlers.
BuildOpts(o, jobName, params) ==
  [o EXCEPT !.queryStrings = BuildQueryStrings(params),
            !.handlers[200] = Handler("build", "_success", jobName),
            !.handlers[201] = Handler("build", "_success", jobName),
            !.handlers[404] = Handler("build", "_notFound", jobName),
            !.handlers[405] = Handler("build", "_paramsRequire", jobName)]

\* bag.request('post', this.url + '/job/' + jobName + '/build', this.opts, cb)
BuildRequest(o, jobName) ==
  [method |-> "post", path |-> "build", job |-> jobName, qs |-> o.queryStrings]

BuildCall(o, jobName, params, from) ==
  [job |-> jobName, params |-> params, from |-> from, state |-> "inflight",
   request |-> BuildRequest(BuildOpts(o, jobName, params), jobName),
   status |-> 0, calls |-> <<>>]

\* Mutant: 405 is taken for success, as 200 and 201 are.
BuildOutcomeLenient(answer) ==
  IF answer.err THEN TransportErr
  ELSE IF answer.status \in {200, 201, 405} THEN NoErr
  ELSE HandlerError(LookupHandler(answer.status))

\* What bag.request passes to cb for an answer: the transport error, or what the
\* handler registered for the status passes (build's _success calls cb()).
BuildOutcome(answer) ==
  IF answer.err THEN TransportErr
  ELSE LET h == LookupHandler(answer.status) IN
         IF h.fn = "_success" THEN NoErr ELSE HandlerError(h)

\* cb(err) of a build call: no payload in any case.
BuildCb(err) == [kind |-> "cb", err |-> err, payload |-> Absent]

BuildAnswers ==
  {[err |-> FALSE, status |-> c] : c \in StatusCodes} \cup {[err |-> TRUE, status |-> 0]}

\* Names and values of build parameters: texts without '=' and '&'.
ParamNames == {<<"k", "1">>, <<"k", "2">>}
ParamValues == {<<"v", "1">>, <<>>}

\* The item lists a caller joins into params.
RECURSIVE ItemLists(_)
ItemLists(n) ==
  IF n = 0 THEN {<<>>}
  ELSE ItemLists(n - 1) \cup
       {Append(l, [name |-> k, value |-> v]) :
          l \in {x \in ItemLists(n - 1) : Len(x) = n - 1}, k \in ParamNames, v \in ParamValues}

\* key1=value1&key2=value2 ...
RECURSIVE JoinItems(_)
JoinItems(items) ==
  IF items = <<>> THEN <<>>
  ELSE Head(items).name \o <<"=">> \o Head(items).value
       \o (IF Len(items) > 1 THEN <<"&">> \o JoinItems(Tail(items)) ELSE <<>>)

BuildParams == {JoinItems(items) : items \in ItemLists(MaxParams)}

AllDone(bs) == \A i \in 1..Len(bs) : bs[i].state = "done"

\* build(jobName, params, cb) called by the user of the client, once the calls
\* before it have completed: the options are written and the POST is issued.
Build(jobName, params) ==
  /\ AllDone(builds)
  /\ opts' = BuildOpts(opts, jobName, params)
  /\ builds' = <<BuildCall(opts, jobName, params, "caller")>>
  /\ UNCHANGED <<csVars, dVars, bbVars, xVars>>

\* The answer to the request of build call i, dispatched by bag.request.
BuildResponse(i, answer) ==
  /\ i \in 1..Len(builds)
  /\ builds[i].state = "inflight"
  /\ builds[i].from = "caller"
  /\ builds' = [builds EXCEPT ![i].state = "done",
                              ![i].status = IF answer.err THEN 0 ELSE answer.status,
                              ![i].calls = Append(@, BuildCb(BuildOutcome(answer)))]
  /\ UNCHANGED <<opts, csVars, dVars, bbVars, xVars>>

\* ------------------------------------------------------ dashboard, buildBy

Lower == <<"a", "b", "c", "d", "e", "f", "g", "h", "i", "j", "k", "l", "m",
           "n", "o", "p", "q", "r", "s", "t", "u", "v", "w", "x", "y", "z">>
Upper == <<"A", "B", "C", "D", "E", "F", "G", "H", "I", "J", "K", "L", "M",
           "N", "O", "P", "Q", "R", "S", "T", "U", "V", "W", "X", "Y", "Z">>

UpperChar(c) ==
  IF \E i \in 1..26 : Lower[i] = c THEN Upper[CHOOSE i \in 1..26 : Lower[i] = c] ELSE c

\* s.toUpperCase()
ToUpperCase(s) == [i \in 1..Len(s) |-> UpperChar(s[i])]

IsPrefix(pat, s) == Len(pat) <= Len(s) /\ SubSeq(s, 1, Len(pat)) = pat

\* s.replace(/pat/, ''): the first occurrence of pat is removed, wherever it is.
RECURSIVE RemoveFirst(_, _)
RemoveFirst(s, pat) ==
  IF IsPrefix(pat, s) THEN SubSeq(s, Len(pat) + 1, Len(s))
  ELSE IF s = <<>> THEN <<>>
  ELSE <<Head(s)>> \o RemoveFirst(Tail(s), pat)

Blue == <<"b", "l", "u", "e">>
Green == <<"g", "r", "e", "e", "n">>
Grey == <<"g", "r", "e", "y">>
Red == <<"r", "e", "d">>
Yellow == <<"y", "e", "l", "l", "o", "w">>
Anime == <<"_", "a", "n", "i", "m", "e">>

OK == <<"O", "K">>
ABORTED == <<"A", "B", "O", "R", "T", "E", "D">>
FAIL == <<"F", "A", "I", "L">>
WARN == <<"W", "A", "R", "N">>

Purple == <<"p", "u", "r", "p", "l", "e">>
Constructor == <<"c", "o", "n", "s", "t", "r", "u", "c", "t", "o", "r">>
ValueOf == <<"v", "a", "l", "u", "e", "O", "f">>

\* The STATUS table of _colorStatus is an object literal: besides its five own
\* keys, STATUS[key] finds what it inherits from Object.prototype, and those
\* members are functions, hence truthy.
InheritedKeys == {Constructor, ValueOf}

\* The member of Object.prototype found under key (not a string).
Inherited(key) == <<"Object.prototype">> \o key

\* _colorStatus(color): the _anime postfix is removed, then the STATUS table is
\* looked up, and a color for which it has nothing truthy is upper-cased.
ColorStatus(color) ==
  LET c == RemoveFirst(color, Anime) IN
    CASE c \in {Blue, Green} -> OK
      [] c = Grey -> ABORTED
      [] c = Red -> FAIL
      [] c = Yellow -> WARN
      [] c \in InheritedKeys -> Inherited(c)
      [] OTHER -> ToUpperCase(c)

\* Names of the jobs of the server, in the order the dashboard lists them.
JobNames == <<"job1", "job2", "job3", "job4">>

\* job.color values the server reports.
DashboardColors == {Blue, Red, Red \o Anime}

\* JSON.parse(result.body).jobs of a 200 answer of /api/json.
JobLists ==
  UNION {[1..n -> DashboardColors] : n \in 0..MaxJobs}

\* dashboard's _success: data has one { status, name } entry per job, in order.
DashboardData(colors) ==
  [i \in 1..Len(colors) |-> [status |-> ColorStatus(colors[i]), name |-> JobNames[i]]]

DashboardAnswers ==
  {[err |-> FALSE, status |-> 200, jobs |-> js] : js \in JobLists}
  \cup {[err |-> FALSE, status |-> c, jobs |-> <<>>] : c \in {401, 500}}
  \cup {[err |-> TRUE, status |-> 0, jobs |-> <<>>]}

\* criteria: keys is Object.keys(criteria).length, status is criteria.status.
NoCriteria == [keys |-> 0, status |-> Undefined]
StatusCriteria(status) == [keys |-> 1, status |-> status]
OtherCriteria == [keys |-> 1, status |-> Undefined]

Criterias == {NoCriteria, StatusCriteria(FAIL), StatusCriteria(OK), OtherCriteria}

\* Mutant: the criteria are not looked at.
FilterNothing(item, criteria) == TRUE

\* filter(item) of buildBy.
Filter(item, criteria) ==
  IF criteria.keys > 0 THEN item.status = criteria.status ELSE TRUE

\* data.filter(filter)
FilterData(data, criteria) == SelectSeq(data, LAMBDA item : Filter(item, criteria))

Trigger(jobName) == [kind |-> "trigger", job |-> jobName, err |-> NoErr]
Complete(jobName, err) == [kind |-> "complete", job |-> jobName, err |-> err]
BuildByCb(err) == [kind |-> "cb", job |-> "", err |-> err]

\* this.opts after build(item.name, null, ...) has run for every item, in order.
RECURSIVE OptsAfterBuilds(_, _)
OptsAfterBuilds(o, items) ==
  IF items = <<>> THEN o
  ELSE OptsAfterBuilds(BuildOpts(o, Head(items).name, <<>>), Tail(items))

\* The build calls async.each makes, one per item, in order.
RECURSIVE BuildsOf(_, _)
BuildsOf(o, items) ==
  IF items = <<>> THEN <<>>
  ELSE <<BuildCall(o, Head(items).name, <<>>, "buildBy")>>
       \o BuildsOf(BuildOpts(o, Head(items).name, <<>>), Tail(items))

\* buildBy(criteria, cb) up to its return: dashboard registers its handler for
\* 200 and issues the read.
BuildBy(criteria) ==
  /\ bbPc = "idle"
  /\ bbPc' = "dashboard"
  /\ bbCriteria' = criteria
  /\ opts' = [opts EXCEPT !.handlers[200] = Handler("dashboard", "_success", "")]
  /\ UNCHANGED <<bbData, bbCompleted, bbCallback, bbLog, builds, csVars, dVars, xVars>>

\* The answer to the dashboard read, dispatched by bag.request to dashboardCb:
\* an error goes to cb; with data, async.each starts a build for every item
\* that passes the filter, and calls cb at once when there is none.
DashboardResponse(answer) ==
  /\ bbPc = "dashboard"
  /\ LET h == LookupHandler(answer.status) IN
       IF answer.err \/ h.fn # "_success"
       THEN /\ bbLog' = Append(bbLog, BuildByCb(IF answer.err THEN TransportErr
                                                 ELSE HandlerError(h)))
            /\ bbPc' = "done"
            /\ UNCHANGED <<bbData, builds, opts>>
       ELSE LET data == DashboardData(answer.jobs)
                items == FilterData(data, bbCriteria) IN
              /\ bbData' = data
              /\ builds' = BuildsOf(opts, items)
              /\ opts' = OptsAfterBuilds(opts, items)
              /\ IF items = <<>>
                 THEN /\ bbLog' = Append(bbLog, BuildByCb(NoErr))
                      /\ bbPc' = "done"
                 ELSE /\ bbLog' = bbLog \o [i \in 1..Len(items) |-> Trigger(items[i].name)]
                      /\ bbPc' = "building"
  /\ UNCHANGED <<bbCriteria, bbCompleted, bbCallback, csVars, dVars, xVars>>

\* Answers to the builds of buildBy.
BuildByAnswers == {a \in BuildAnswers : a.err \/ a.status \in {201, 404, 405}}

\* The answer to build i of buildBy: build's cb is the iterator's, which passes
\* err on to async.each. An error calls the callback and replaces it by a
\* no-op; a success counts, and the last one to be counted calls the callback.
BuildByResponse(i, answer) ==
  /\ i \in 1..Len(builds)
  /\ builds[i].state = "inflight"
  /\ builds[i].from = "buildBy"
  /\ LET err == BuildOutcome(answer)
         done == Complete(builds[i].job, err) IN
       /\ builds' = [builds EXCEPT ![i].state = "done",
                                   ![i].status = IF answer.err THEN 0 ELSE answer.status,
                                   ![i].calls = Append(@, BuildCb(err))]
       /\ IF err # NoErr
          THEN /\ bbLog' = IF bbCallback = "cb"
                           THEN bbLog \o <<done, BuildByCb(err)>>
                           ELSE Append(bbLog, done)
               /\ bbCallback' = "noop"
               /\ UNCHANGED bbCompleted
          ELSE /\ bbCompleted' = bbCompleted + 1
               /\ bbLog' = IF bbCompleted + 1 = Len(builds) /\ bbCallback = "cb"
                           THEN bbLog \o <<done, BuildByCb(NoErr)>>
                           ELSE Append(bbLog, done)
               /\ UNCHANGED bbCallback
  /\ bbPc' = IF AllDone(builds') THEN "done" ELSE "building"
  /\ UNCHANGED <<opts, bbCriteria, bbData, csVars, dVars, xVars>>

\* ----------------------------------------------------------------- discover

Hosts == {"host1", "host2"}

\* Reply datagrams: the XML text a Jenkins instance answers with.
Datagrams == {"<hudson><version>1</version></hudson>", "<hudson><version>2</version></hudson>"}

\* parser.parseString(result), handed to the 'end' listener: the parsed document.
ParseXml(datagram) ==
  [hudson |-> [version |-> IF datagram = "<hudson><version>1</version></hudson>"
                           THEN "1" ELSE "2"]]

SocketErr == [type |-> "socket", host |-> ""]
SendErr == [type |-> "send", host |-> ""]
\* new Error(util.format('Unable to find any Jenkins instance on %s', host))
DiscoveryTimeoutErr(host) == [type |-> "timeout", host |-> host]
NoDiscoveryErr == [type |-> "none", host |-> ""]

CloseCall == [kind |-> "close"]
DiscoverCb(err, res) == [kind |-> "cb", err |-> err, result |-> res]
NoDiscoveryResult == [hudson |-> [version |-> ""]]

\* socket.close(); cb(err)
CloseThenCb(err) == <<CloseCall, DiscoverCb(err, NoDiscoveryResult)>>

\* What the timer callback does: cb(new Error(...)) and nothing else.
OnTimeout(host) == <<DiscoverCb(DiscoveryTimeoutErr(host), NoDiscoveryResult)>>

\* What the 'message' listener does: socket.close(), then the parsed reply to cb.
OnMessage(datagram) == <<CloseCall, DiscoverCb(NoDiscoveryErr, ParseXml(datagram))>>

\* The discover calls made on the client, numbered in call order.
DiscoverCalls == 1..MaxDiscovers

\* discover(host, cb) up to its return: the socket is created, the listeners
\* are attached, the datagram is handed to socket.send and the timer is set.
Discover(c, host) ==
  /\ socket[c] = "none"
  /\ c > 1 => socket[c - 1] # "none"
  /\ dHost' = [dHost EXCEPT ![c] = host]
  /\ socket' = [socket EXCEPT ![c] = "open"]
  /\ sendCb' = [sendCb EXCEPT ![c] = "pending"]
  /\ timer' = [timer EXCEPT ![c] = "pending"]
  /\ UNCHANGED <<dLog, opts, csVars, builds, bbVars, xVars>>

\* The callback of socket.send, run once while the socket is open: on an error
\* the socket is closed and cb called.
SendDone(c, failed) ==
  /\ sendCb[c] = "pending"
  /\ socket[c] = "open"
  /\ sendCb' = [sendCb EXCEPT ![c] = IF failed THEN "err" ELSE "ok"]
  /\ IF failed
     THEN /\ socket' = [socket EXCEPT ![c] = "closed"]
          /\ dLog' = [dLog EXCEPT ![c] = @ \o CloseThenCb(SendErr)]
     ELSE UNCHANGED <<socket, dLog>>
  /\ UNCHANGED <<dHost, timer, opts, csVars, builds, bbVars, xVars>>

\* The 'error' listener of the socket.
SocketError(c) ==
  /\ socket[c] = "open"
  /\ socket' = [socket EXCEPT ![c] = "closed"]
  /\ dLog' = [dLog EXCEPT ![c] = @ \o CloseThenCb(SocketErr)]
  /\ UNCHANGED <<dHost, sendCb, timer, opts, csVars, builds, bbVars, xVars>>

\* The 'message' listener: a reply to the datagram sent arrives on the open
\* socket (a closed socket delivers nothing).
Message(c, datagram) ==
  /\ socket[c] = "open"
  /\ sendCb[c] = "ok"
  /\ socket' = [socket EXCEPT ![c] = "closed"]
  /\ dLog' = [dLog EXCEPT ![c] = @ \o OnMessage(datagram)]
  /\ UNCHANGED <<dHost, sendCb, timer, opts, csVars, builds, bbVars, xVars>>

\* The timer callback, TIMEOUT ms after the call: nothing cancels the timer.
Timeout(c) ==
  /\ timer[c] = "pending"
  /\ timer' = [timer EXCEPT ![c] = "fired"]
  /\ dLog' = [dLog EXCEPT ![c] = @ \o OnTimeout(dHost[c])]
  /\ UNCHANGED <<dHost, socket, sendCb, opts, csVars, builds, bbVars, xVars>>

\* --------------------------- _colorStatus, _dashboardStatus, executor's names

NoCall == [fn |-> "none"]

\* job.color values handed to _colorStatus.
ColorBases == {Blue, Green, Grey, Red, Yellow, Purple, Constructor, ValueOf, <<>>}

ColorTokens == ColorBases \cup {b \o Anime : b \in ColorBases} \cup {Anime \o Red}

\* A call of _colorStatus(color).
ColorStatusCall(color) ==
  /\ called = NoCall
  /\ called' = [fn |-> "_colorStatus", color |-> color, result |-> ColorStatus(color)]
  /\ UNCHANGED <<opts, csVars, dVars, builds, bbVars, mVars, ops>>

Null == <<"null">>

\* Mutant: ABORTED is looked for before WARN.
StatusAbortedFirst == <<FAIL, ABORTED, WARN, OK>>

\* The STATUS array of _dashboardStatus.
STATUS == <<FAIL, WARN, ABORTED, OK>>

\* _.pluck(data, 'status')
Pluck(data) == [i \in 1..Len(data) |-> data[i].status]

\* _.uniq(list): the first occurrence of every value, in order.
Uniq(list) ==
  LET first == {i \in 1..Len(list) : \A j \in 1..(i - 1) : list[j] # list[i]}
      F[i \in 0..Len(list)] ==
        IF i = 0 THEN <<>>
        ELSE IF i \in first THEN Append(F[i - 1], list[i]) ELSE F[i - 1]
  IN F[Len(list)]

\* list.indexOf(x), counted from 0; -1 when x is not in list.
IndexOf(list, x) ==
  IF \E i \in 1..Len(list) : list[i] = x
  THEN (CHOOSE i \in 1..Len(list) :
          list[i] = x /\ \A j \in 1..(i - 1) : list[j] # x) - 1
  ELSE -1

\* _dashboardStatus(opts, data): jobName is opts.jobName ("" when not given).
\* F[i] is dashboardStatus when the loop has looked at STATUS[1..i].
DashboardStatus(jobName, data) ==
  LET filtered == IF jobName # ""
                  THEN SelectSeq(data, LAMBDA item : item.name = jobName)
                  ELSE data
      uniq == Uniq(Pluck(filtered))
      F[i \in 0..Len(STATUS)] ==
        IF i = 0 THEN Null
        ELSE IF F[i - 1] # Null THEN F[i - 1]
        ELSE IF IndexOf(uniq, STATUS[i]) # -1 THEN STATUS[i] ELSE Null
  IN F[Len(STATUS)]

MaxItems == 3

\* data handed to _dashboardStatus: { status, name } entries as dashboard
\* produces them.
Items == {[status |-> st, name |-> n] :
            st \in {FAIL, WARN, ABORTED, OK, ToUpperCase(Purple)}, n \in {"job1", "job2"}}

ItemData == UNION {[1..n -> Items] : n \in 0..MaxItems}

JobNameOpts == {"", "job1", "job3"}

\* A call of _dashboardStatus({ jobName: jobName }, data).
DashboardStatusCall(jobName, data) ==
  /\ called = NoCall
  /\ called' = [fn |-> "_dashboardStatus", jobName |-> jobName, data |-> data,
                result |-> DashboardStatus(jobName, data)]
  /\ UNCHANGED <<opts, csVars, dVars, builds, bbVars, mVars, ops>>

JobSlash == <<"/", "j", "o", "b", "/">>

\* The positions in s at which pat occurs.
Occurrences(s, pat) ==
  {i \in 1..(Len(s) - Len(pat) + 1) : SubSeq(s, i, i + Len(pat) - 1) = pat}

Max(S) == CHOOSE x \in S : \A y \in S : y <= x
Min(S) == CHOOSE x \in S : \A y \in S : x <= y

\* Mutant: the match ends at the first "/job/".
RemoveThroughFirstJob(s) ==
  LET at == Occurrences(s, JobSlash) IN
    IF at = {} THEN s ELSE SubSeq(s, Min(at) + Len(JobSlash), Len(s))

\* s.replace(/.*\/job\//, ''): `.*` is greedy, so the match runs from the start
\* of s through the last "/job/" in it; s is left alone when it has none.
RemoveThroughJob(s) ==
  LET at == Occurrences(s, JobSlash) IN
    IF at = {} THEN s ELSE SubSeq(s, Max(at) + Len(JobSlash), Len(s))

\* s.replace(/\/.*/, ''): everything from the first "/" on is removed.
RemoveFromSlash(s) ==
  LET at == Occurrences(s, <<"/">>) IN
    IF at = {} THEN s ELSE SubSeq(s, 1, Min(at) - 1)

\* The entry executor's _success pushes for one executor of a computer.
ExecutorEntry(executor) ==
  [idle |-> executor.idle,
   stuck |-> executor.likelyStuck,
   progress |-> executor.progress,
   name |-> IF ~executor.idle
            THEN RemoveFromSlash(RemoveThroughJob(executor.url))
            ELSE Undefined]

MaxSegments == 5

JobSegment == <<"j", "o", "b">>

\* Path segments of the URLs of running builds.
Segments == {JobSegment, <<"f">>, <<"m">>, <<"3">>}

Paths == UNION {[1..n -> Segments] : n \in 1..MaxSegments}

\* The URL with the given path segments: host, then "/" and a segment for each,
\* then a closing "/".
UrlOf(path) ==
  LET F[i \in 0..Len(path)] ==
        IF i = 0 THEN <<"h">> ELSE F[i - 1] \o <<"/">> \o path[i]
  IN F[Len(path)] \o <<"/">>

\* executor objects of the server's answer: path is kept beside the url it gives.
Executors ==
  {[idle |-> FALSE, likelyStuck |-> FALSE, progress |-> 50, url |-> UrlOf(p), path |-> p] :
     p \in Paths}
  \cup {[idle |-> TRUE, likelyStuck |-> FALSE, progress |-> -1, url |-> <<>>, path |-> <<>>]}

\* executor's _success on one executor.
ExecutorMap(executor) ==
  /\ called = NoCall
  /\ called' = [fn |-> "executor", executor |-> executor,
                result |-> ExecutorEntry(executor)]
  /\ UNCHANGED <<opts, csVars, dVars, builds, bbVars, mVars, ops>>

\* ------------------------------------------------------------------ monitor

MaxTicks == 2

\* Jobs (their colors) in the answers to monitor's dashboard reads.
MonitorJobs == {<<>>, <<Blue, Red>>, <<Yellow \o Anime, Grey>>}

MonitorAnswers ==
  {[err |-> FALSE, status |-> 200, jobs |-> js] : js \in MonitorJobs}
  \cup {[err |-> FALSE, status |-> 500, jobs |-> <<>>],
        [err |-> TRUE, status |-> 0, jobs |-> <<>>]}

NoAnswer == [err |-> FALSE, status |-> 0, jobs |-> <<>>]

\* _notify has called self.dashboard for read k.
ReadStart(k) ==
  [kind |-> "read", read |-> k, answer |-> NoAnswer, err |-> NoErr, result |-> Undefined]

\* cb(err, result) for read k, with the answer that led to it.
MonitorCb(k, answer, err, res) ==
  [kind |-> "cb", read |-> k, answer |-> answer, err |-> err, result |-> res]

\* What dashboard passes to its callback for an answer: the transport error,
\* or what the handler registered for the status passes.
DashboardOutcome(answer) ==
  IF answer.err THEN [err |-> TransportErr, data |-> <<>>]
  ELSE LET h == LookupHandler(answer.status) IN
         IF h.fn = "_success"
         THEN [err |-> NoErr, data |-> DashboardData(answer.jobs)]
         ELSE [err |-> HandlerError(h), data |-> <<>>]

\* Mutant: the status of all jobs, whatever opts.jobName is.
NotifyResultUnfiltered(jobName, outcome) ==
  IF outcome.err = NoErr THEN DashboardStatus("", outcome.data) ELSE Undefined

\* The result _notify's callback passes to cb: the dashboard status when the read
\* gave no error, and what dashboard passed (nothing) when it gave one.
NotifyResult(jobName, outcome) ==
  IF outcome.err = NoErr THEN DashboardStatus(jobName, outcome.data) ELSE Undefined

\* _notify() up to its return: dashboard registers its handler for 200 and
\* issues read k.
Notify(k) ==
  /\ opts' = [opts EXCEPT !.handlers[200] = Handler("dashboard", "_success", "")]
  /\ mReads' = Append(mReads, "inflight")
  /\ mLog' = Append(mLog, ReadStart(k))

\* monitor(opts, cb): the first _notify, then the cron job is started.
Monitor(jobName) ==
  /\ mReads = <<>>
  /\ mJobName' = jobName
  /\ Notify(1)
  /\ UNCHANGED <<mTicks, called, ops, csVars, dVars, builds, bbVars>>

\* A tick of the cron job: _notify again, whatever became of the reads before.
MonitorTick ==
  /\ mReads # <<>>
  /\ mTicks < MaxTicks
  /\ mTicks' = mTicks + 1
  /\ Notify(Len(mReads) + 1)
  /\ UNCHANGED <<mJobName, called, ops, csVars, dVars, builds, bbVars>>

\* The answer to read k arrives: dashboard's callback, given by _notify, runs.
MonitorResponse(k, answer) ==
  /\ k \in 1..Len(mReads)
  /\ mReads[k] = "inflight"
  /\ mReads' = [mReads EXCEPT ![k] = "done"]
  /\ LET outcome == DashboardOutcome(answer) IN
       mLog' = Append(mLog, MonitorCb(k, answer, outcome.err,
                                      NotifyResult(mJobName, outcome)))
  /\ UNCHANGED <<mJobName, mTicks, opts, called, ops, csVars, dVars, builds, bbVars>>

\* ------------------------------------ operations one after the other on a client

MaxOps == 2

\* A view's config.xml.
ViewConfig == <<"<", "v", "/", ">">>

\* The calls made: the operation, the job or view name and the params or config.
Calls ==
  {[op |-> "build", name |-> j, arg |-> p] :
     j \in Jobs, p \in {<<>>, <<"k", "1", "=", "v", "1">>}}
  \cup {[op |-> "dashboard", name |-> "", arg |-> <<>>],
        [op |-> "executor", name |-> "", arg |-> <<>>],
        [op |-> "view.create", name |-> "view1", arg |-> ViewConfig]}

\* this.opts after the operation of call c has written to it, up to its request.
OptsAfter(o, c) ==
  CASE c.op = "build" -> BuildOpts(o, c.name, c.arg)
    [] c.op = "dashboard" ->
         [o EXCEPT !.handlers[200] = Handler("dashboard", "_success", "")]
    [] c.op = "executor" ->
         [o EXCEPT !.queryStrings = [kind |-> "executor", depth |-> 1],
                   !.handlers[200] = Handler("executor", "_success", "")]
    [] c.op = "view.create" ->
         [o EXCEPT !.queryStrings = [kind |-> "view", name |-> c.name],
                   !.headers = "content-type: application/xml",
                   !.body = c.arg,
                   !.handlers[200] = Handler("view.create", "passThroughSuccess", ""),
                   !.handlers[400] = Handler("view.create", "htmlError", "")]

\* What a request made with options o carries: the operations hand this.opts
\* itself to the request helper.
Carried(o) == [qs |-> o.queryStrings, headers |-> o.headers, body |-> o.body]

\* Answers to the requests.
CallAnswers ==
  {[err |-> FALSE, status |-> c] : c \in {200, 400, 404, 405}}
  \cup {[err |-> TRUE, status |-> 0]}

\* An operation is called when the ones before it have completed: it writes its
\* options to this.opts and issues its request with them.
Call(c) ==
  /\ Len(ops) < MaxOps
  /\ \A i \in 1..Len(ops) : ops[i].state = "done"
  /\ opts' = OptsAfter(opts, c)
  /\ ops' = Append(ops, [call |-> c, state |-> "inflight",
                          request |-> Carried(OptsAfter(opts, c)),
                          status |-> 0, ran |-> NoHandler])
  /\ UNCHANGED <<called, mVars, csVars, dVars, builds, bbVars>>

\* The answer to the request in flight: the request helper runs the handler
\* this.opts has for the status, none on a transport error.
CallResponse(answer) ==
  /\ ops # <<>>
  /\ ops[Len(ops)].state = "inflight"
  /\ ops' = [ops EXCEPT ![Len(ops)] =
               [@ EXCEPT !.state = "done",
                         !.status = answer.status,
                         !.ran = IF answer.err THEN NoHandler
                                 ELSE LookupHandler(answer.status)]]
  /\ UNCHANGED <<opts, called, mVars, csVars, dVars, builds, bbVars>>

\* ------------------------------------------------------------ specification

Init ==
  /\ opts = InitOpts
  /\ csPc = "idle"
  /\ csJob = ""
  /\ csInterval = 0
  /\ result = NoResult
  /\ log = <<>>
  /\ dHost = [c \in DiscoverCalls |-> ""]
  /\ socket = [c \in DiscoverCalls |-> "none"]
  /\ sendCb = [c \in DiscoverCalls |-> "none"]
  /\ timer = [c \in DiscoverCalls |-> "none"]
  /\ dLog = [c \in DiscoverCalls |-> <<>>]
  /\ builds = <<>>
  /\ bbPc = "idle"
  /\ bbCriteria = NoCriteria
  /\ bbData = <<>>
  /\ bbCompleted = 0
  /\ bbCallback = "cb"
  /\ bbLog = <<>>
  /\ called = NoCall
  /\ mJobName = ""
  /\ mReads = <<>>
  /\ mTicks = 0
  /\ mLog = <<>>
  /\ ops = <<>>

ConsoleNext ==
  \/ \E j \in Jobs, i \in Intervals : ConsoleStream(j, i)
  \/ ConsoleTick
  \/ \E r \in Answers(Len(requests)) : ConsoleInitialResponse(r)
  \/ \E r \in Answers(Len(requests)) : ConsolePollResponse(r)
  \/ ConsoleTimer

\* One consoleStream call on a fresh client.
SpecConsole == Init /\ [][ConsoleNext]_vars

BuildNext ==
  \/ \E j \in Jobs, p \in BuildParams : Build(j, p)
  \/ \E i \in 1..Len(builds), a \in BuildAnswers : BuildResponse(i, a)

\* build calls made one after the other on one client.
SpecBuild == Init /\ [][BuildNext]_vars

BuildByNext ==
  \/ \E c \in Criterias : BuildBy(c)
  \/ \E a \in DashboardAnswers : DashboardResponse(a)
  \/ \E i \in 1..Len(builds), a \in BuildByAnswers : BuildByResponse(i, a)

\* One buildBy call on a fresh client.
SpecBuildBy == Init /\ [][BuildByNext]_vars

DiscoverNext ==
  \/ \E c \in DiscoverCalls, h \in Hosts : Discover(c, h)
  \/ \E c \in DiscoverCalls, f \in BOOLEAN : SendDone(c, f)
  \/ \E c \in DiscoverCalls : SocketError(c)
  \/ \E c \in DiscoverCalls, d \in Datagrams : Message(c, d)
  \/ \E c \in DiscoverCalls : Timeout(c)

\* discover calls on one client, each with its own socket and timer.
SpecDiscover == Init /\ [][DiscoverNext]_vars

PureNext ==
  \/ \E c \in ColorTokens : ColorStatusCall(c)
  \/ \E n \in JobNameOpts, d \in ItemData : DashboardStatusCall(n, d)
  \/ \E e \in Executors : ExecutorMap(e)

\* One call of one of the functions that compute statuses and names from the
\* server's data; they keep no state between calls.
SpecPure == Init /\ [][PureNext]_vars

MonitorNext ==
  \/ \E n \in JobNameOpts : Monitor(n)
  \/ MonitorTick
  \/ \E k \in 1..(MaxTicks + 1), a \in MonitorAnswers : MonitorResponse(k, a)

\* One monitor call on a fresh client, and the ticks of its cron job.
SpecMonitor == Init /\ [][MonitorNext]_vars

SequenceNext ==
  \/ \E c \in Calls : Call(c)
  \/ \E a \in CallAnswers : CallResponse(a)

\* Operations called one after the other on one client, each after the answer
\* to the one before.
SpecSequence == Init /\ [][SequenceNext]_vars

\* ------------------------------------------------- claims: consoleStream

\* The data events the bodies of the response entries rs give, in order.
RECURSIVE DataOf(_)
DataOf(rs) ==
  IF rs = <<>> THEN <<>>
  ELSE (IF Head(rs).r.body # "" THEN <<DataEvent(Head(rs).r.body)>> ELSE <<>>)
       \o DataOf(Tail(rs))

IsData(e) == e.kind = "data"

Successful(r) == ~r.err /\ r.status = 200

AllSuccessful == \A k \in 1..Len(responses) : Successful(responses[k].r)

\* C1: a stream all of whose answers were successful and that has ended has
\* emitted one data event per non-empty body, in request order, then one end;
\* it issued as many requests as it got answers, the first with start=0 and
\* request k+1 with the text size the server gave in answer k.
C1_ScriptedStream ==
  (csPc = "done" /\ AllSuccessful) =>
    /\ events = DataOf(responses) \o <<EndEvent>>
    /\ Len(requests) = Len(responses)
    /\ requests[1].qs = [kind |-> "start", start |-> 0]
    /\ \A k \in 1..(Len(responses) - 1) :
         /\ responses[k].r.more = "true"
         /\ \E n \in TextSizes :
              /\ responses[k].r.size = IntToStr(n)
              /\ requests[k + 1].qs = [kind |-> "start", start |-> n]
    /\ responses[Len(responses)].r.more # "true"

\* The spec's example: answers [a, more, size 10], [b, no more].
C1_Witness ==
  /\ csPc = "done"
  /\ Len(responses) = 2
  /\ responses[1].r = [err |-> FALSE, status |-> 200, body |-> "a", more |-> "true",
                       size |-> <<"1", "0">>]
  /\ responses[2].r.body = "b" /\ responses[2].r.more = "false"
  /\ events = <<DataEvent("a"), DataEvent("b"), EndEvent>>
  /\ Len(requests) = 2
  /\ requests[2].qs.start = 10

\* C2: at most one request is in flight, and when a request is issued every
\* earlier request has been answered and the data events of those answers
\* have been emitted.
C2_OnePollInFlight ==
  /\ Len(requests) - Len(responses) \in {0, 1}
  /\ \A i \in 1..Len(log) :
       log[i].kind = "request" =>
         LET before == SubSeq(log, 1, i - 1) IN
           /\ Len(SelectSeq(before, IsRequest)) = Len(SelectSeq(before, IsResponse))
           /\ SelectSeq(before, IsData) = DataOf(SelectSeq(before, IsResponse))

\* A third request goes out after two answered ones.
C2_Witness ==
  /\ Len(requests) = 3
  /\ Len(responses) = 2
  /\ responses[2].r.body = "b"
  /\ csPc = "poll"

\* C3: after a transport error on a poll after the first, no further request
\* has been issued and cb has been invoked exactly once, with that error.
C3_PollErrorEndsStream ==
  \A k \in 2..Len(responses) :
    responses[k].r.err =>
      /\ Len(requests) = k
      /\ Len(responses) = k
      /\ cbCalls = <<CbCall(TransportErr)>>
      /\ csPc = "done"

C3_Witness ==
  /\ Len(responses) = 2
  /\ responses[2].r.err
  /\ csPc = "done"

\* C4: a stream that got a 404 answer, to the first request or a later one, has
\* passed the job-not-found error naming the job to cb, has not emitted the
\* body of that answer, and has issued no further request.
C4_NotFoundEndsStream ==
  csPc = "done" =>
    \A k \in 1..Len(responses) :
      (~responses[k].r.err /\ responses[k].r.status = 404) =>
        /\ cbCalls = <<CbCall(JobNotFoundErr(csJob))>>
        /\ Len(requests) = k
        /\ SelectSeq(log, IsData) = DataOf(SubSeq(responses, 1, k - 1))

\* C5: once a successful answer without more data pending has arrived, no
\* request follows it; the stream ends with exactly one end event followed by
\* exactly one cb call without error, and nothing follows the end event but cb.
C5_NoMoreDataEndsStream ==
  \A k \in 1..Len(responses) :
    (Successful(responses[k].r) /\ responses[k].r.more # "true") =>
      /\ Len(requests) = k
      /\ Len(responses) = k
      /\ csPc \in {"wait", "done"}
      /\ csPc = "wait" => Len(cbCalls) = 0 /\ Len(SelectSeq(log, IsEvent)) = Len(SelectSeq(log, IsData))
      /\ csPc = "done" =>
           /\ SubSeq(log, Len(log) - 1, Len(log)) = <<EndEvent, CbCall(NoErr)>>
           /\ cbCalls = <<CbCall(NoErr)>>
           /\ events = DataOf(responses) \o <<EndEvent>>

\* The last answer of a three-request stream ends it, after the timer.
C5_Witness ==
  /\ csPc = "done"
  /\ Len(responses) = 3
  /\ Successful(responses[3].r)
  /\ responses[3].r.more = "false"
  /\ responses[3].r.body = "b"

\* ------------------------------------------------------ claims: discover

IsDiscoverCb(e) == e.kind = "cb"
IsClose(e) == e.kind = "close"

\* C6: a discover call invokes cb exactly once, whatever the order of reply,
\* socket error, send error and timer: never twice, and once the timer has
\* fired exactly once. So a reply that came first is the only outcome delivered
\* (no timeout error follows it), and a timeout that came first is the only
\* outcome delivered (no reply follows it).
C6_DiscoverCallsBackOnce ==
  \A c \in DiscoverCalls :
    /\ Len(SelectSeq(dLog[c], IsDiscoverCb)) <= 1
    /\ timer[c] = "fired" => Len(SelectSeq(dLog[c], IsDiscoverCb)) = 1

\* C7: before every invocation of cb the socket of that call has been closed,
\* and it is closed at most once.
C7_SocketClosedOnEveryPath ==
  \A c \in DiscoverCalls :
    /\ Len(SelectSeq(dLog[c], IsClose)) <= 1
    /\ \A i \in 1..Len(dLog[c]) :
         dLog[c][i].kind = "cb" => \E j \in 1..(i - 1) : dLog[c][j].kind = "close"

\* --------------------------------------------------------- claims: build

\* The error cb must receive for a status, by the claim.
ExpectedBuildErr(status, jobName) ==
  CASE status \in {200, 201} -> NoErr
    [] status = 404 -> JobNotFoundErr(jobName)
    [] status = 405 -> ParamsRequireErr(jobName)
    [] status = 401 -> AuthFailErr
    [] status = 403 -> AuthRequireErr

\* C9: a completed build call has invoked cb exactly once, without payload: with
\* no error on 200 and 201, with job-not-found naming its job on 404, with
\* parameters-required naming its job on 405, with the authentication errors
\* on 401 and 403.
C9_BuildStatusMapping ==
  \A i \in 1..Len(builds) :
    /\ builds[i].state = "inflight" => builds[i].calls = <<>>
    /\ builds[i].state = "done" =>
         /\ Len(builds[i].calls) = 1
         /\ builds[i].calls[1].payload = Absent
         /\ builds[i].status \in {200, 201, 401, 403, 404, 405} =>
              builds[i].calls[1].err = ExpectedBuildErr(builds[i].status, builds[i].job)

\* A 405 answer to a build of job2 called with parameters.
C9_Witness ==
  /\ Len(builds) = 1
  /\ builds[1].state = "done"
  /\ builds[1].status = 405
  /\ builds[1].job = "job2"
  /\ builds[1].calls = <<BuildCb(ParamsRequireErr("job2"))>>
  /\ builds[1].request.qs.json.parameter # <<>>

\* C10: the POST of a build call whose params joins the items of a list with
\* '&' carries token 'nestor' and a parameter list equal to that list of
\* {name, value} entries, in order (the empty list for no params).
C10_BuildParameterList ==
  \A i \in 1..Len(builds) :
    /\ builds[i].request.method = "post"
    /\ builds[i].request.job = builds[i].job
    /\ builds[i].request.qs.token = "nestor"
    /\ \A items \in ItemLists(MaxParams) :
         builds[i].params = JoinItems(items) =>
           builds[i].request.qs.json.parameter = items

\* build("job1", "k1=v1&k2=", cb)
C10_Witness ==
  /\ Len(builds) = 1
  /\ builds[1].job = "job1"
  /\ builds[1].params = <<"k", "1", "=", "v", "1", "&", "k", "2", "=">>
  /\ builds[1].request.qs.json.parameter =
       <<[name |-> <<"k", "1">>, value |-> <<"v", "1">>],
         [name |-> <<"k", "2">>, value |-> <<>>]>>

\* ------------------------------------------------------- claims: buildBy

IsTrigger(e) == e.kind = "trigger"
IsComplete(e) == e.kind = "complete"
IsFailure(e) == e.kind = "complete" /\ e.err # NoErr
IsBuildByCb(e) == e.kind = "cb"

\* The jobs the claim wants built: those whose status equals criteria.status,
\* all of them when criteria is empty.
Matches(item) == bbCriteria = NoCriteria \/ item.status = bbCriteria.status

JobsToBuild == SelectSeq(bbData, Matches)

\* One build call, with one request, per job to build and for no other job.
BuildsExactlyTheMatches ==
  /\ Len(builds) = Len(JobsToBuild)
  /\ \A i \in 1..Len(builds) :
       /\ builds[i].job = JobsToBuild[i].name
       /\ builds[i].request.job = builds[i].job
       /\ builds[i].request.method = "post"
  /\ SelectSeq(bbLog, IsTrigger) = [i \in 1..Len(builds) |-> Trigger(builds[i].job)]

CbExactlyOnce ==
  /\ Len(SelectSeq(bbLog, IsBuildByCb)) <= 1
  /\ bbPc = "done" => Len(SelectSeq(bbLog, IsBuildByCb)) = 1

\* C8 as stated: the builds are exactly those of the matching jobs, cb is
\* invoked exactly once, and when it is invoked every triggered build has
\* completed, also when a build failed.
C8_CbAfterEveryBuild ==
  /\ BuildsExactlyTheMatches
  /\ CbExactlyOnce
  /\ \A i \in 1..Len(bbLog) :
       bbLog[i].kind = "cb" =>
         Len(SelectSeq(SubSeq(bbLog, 1, i - 1), IsComplete)) = Len(builds)

\* C8 as amended: the builds are exactly those of the matching jobs and cb is
\* invoked exactly once: without error after every triggered build has
\* completed when none has failed, and with the error of the first build that
\* fails right when it fails, whether or not the other builds have completed.
C8_CbAfterBuildsOrFirstError ==
  /\ BuildsExactlyTheMatches
  /\ CbExactlyOnce
  /\ \A i \in 1..Len(bbLog) :
       (bbLog[i].kind = "cb" /\ bbData # <<>>) =>
         LET before == SubSeq(bbLog, 1, i - 1) IN
           IF SelectSeq(before, IsFailure) = <<>>
           THEN /\ Len(SelectSeq(before, IsComplete)) = Len(builds)
                /\ bbLog[i].err = NoErr
           ELSE /\ IsFailure(bbLog[i - 1])
                /\ Len(SelectSeq(before, IsFailure)) = 1
                /\ bbLog[i].err = bbLog[i - 1].err
  /\ bbPc = "done" => Len(SelectSeq(bbLog, IsComplete)) = Len(builds)

\* buildBy({status: 'FAIL'}) on a dashboard of two failed jobs: the build of
\* job2 fails first, cb gets its error, the build of job1 completes afterwards.
C8_Witness ==
  /\ bbPc = "done"
  /\ bbCriteria = StatusCriteria(FAIL)
  /\ bbLog = <<Trigger("job1"), Trigger("job2"),
               Complete("job2", TransportErr), BuildByCb(TransportErr),
               Complete("job1", NoErr)>>

\* ------------------------------------------- claims: consoleStream, timing

\* C15: every request after the first one is issued by the timer callback, one
\* polling interval (opts.interval when given, otherwise INTERVAL) after the
\* answer before it was handled; so is the second request.
C15_PollAfterInterval ==
  \A k \in 2..Len(requests) :
    requests[k].delay = (IF csInterval # 0 THEN csInterval ELSE INTERVAL)

\* The text size, as a number, of an answer that carries one.
SizeOf(r) == CHOOSE n \in TextSizes : r.size = IntToStr(n)

\* The sizes the answers before request k reported never went down.
SizesNonDecreasing(k) ==
  \A j \in 1..(k - 1) :
    /\ \E n \in TextSizes : responses[j].r.size = IntToStr(n)
    /\ j > 1 => SizeOf(responses[j - 1].r) <= SizeOf(responses[j].r)

\* C16 as stated: the start offsets of the requests of one stream never go
\* down, whatever the server answers.
C16_StartNonDecreasing ==
  \A k \in 1..(Len(requests) - 1) :
    requests[k].qs.start <= requests[k + 1].qs.start

\* C16 as amended: the first request starts at 0 and request k+1 starts at the
\* text size answer k reported; so the start offsets never go down as long as
\* the sizes the server reports never go down.
C16_StartFollowsReportedSize ==
  \A k \in 1..Len(requests) :
    /\ k = 1 => requests[k].qs.start = 0
    /\ k > 1 => requests[k].qs.start = SizeOf(responses[k - 1].r)
    /\ (k > 1 /\ SizesNonDecreasing(k)) =>
         requests[k - 1].qs.start <= requests[k].qs.start

\* Three requests on a log that grows: sizes 0 then 10, starts 0, 0, 10.
C16_Witness ==
  /\ Len(requests) = 3
  /\ SizesNonDecreasing(3)
  /\ requests[1].qs.start = 0
  /\ requests[2].qs.start = 0
  /\ requests[3].qs.start = 10

\* C19: whenever cb has been invoked, with or without an error, exactly one end
\* event has been emitted on the stream before it.
C19_EndBeforeCb ==
  \A i \in 1..Len(log) :
    log[i].kind = "cb" =>
      Len(SelectSeq(SubSeq(log, 1, i - 1), LAMBDA e : e.kind = "end")) = 1

\* ---------------------------------------------- claims: handler isolation

\* C17: the answer to a request is dispatched to the handler registered by the
\* call that issued it: a build of buildBy answered with 404 or 405 passes to
\* its cb the error that names its own job.
C17_HandlerIsolation ==
  \A i \in 1..Len(builds) :
    (builds[i].state = "done" /\ builds[i].status \in {404, 405}) =>
      builds[i].calls =
        <<BuildCb(IF builds[i].status = 404 THEN JobNotFoundErr(builds[i].job)
                  ELSE ParamsRequireErr(builds[i].job))>>

\* ------------------------------------------------- claims: status functions

\* s without a trailing "_anime".
StripSuffix(s) ==
  IF Len(s) >= Len(Anime) /\ SubSeq(s, Len(s) - Len(Anime) + 1, Len(s)) = Anime
  THEN SubSeq(s, 1, Len(s) - Len(Anime))
  ELSE s

\* C11: after the "_anime" suffix is stripped, blue and green give OK, grey
\* ABORTED, red FAIL, yellow WARN, and every other token is returned upper-cased.
C11_ColorClassification ==
  called.fn = "_colorStatus" =>
    LET c == StripSuffix(called.color) IN
      called.result = (CASE c = Blue -> OK
                         [] c = Green -> OK
                         [] c = Grey -> ABORTED
                         [] c = Red -> FAIL
                         [] c = Yellow -> WARN
                         [] OTHER -> ToUpperCase(c))

\* The statuses of the jobs _dashboardStatus considers.
Considered(jobName, data) ==
  {data[i].status : i \in {j \in 1..Len(data) : jobName = "" \/ data[j].name = jobName}}

\* The first of FAIL, WARN, ABORTED, OK among the statuses present, else null.
FirstInPriority(present) ==
  IF FAIL \in present THEN FAIL
  ELSE IF WARN \in present THEN WARN
  ELSE IF ABORTED \in present THEN ABORTED
  ELSE IF OK \in present THEN OK
  ELSE Null

\* C12: the aggregate status is the first of FAIL, WARN, ABORTED, OK that a
\* considered job has - all jobs, or only the jobs of the given name - and null
\* when none has any of them.
C12_FirstInPriority ==
  called.fn = "_dashboardStatus" =>
    LET present == Considered(called.jobName, called.data) IN
      called.result = FirstInPriority(present)

\* An ABORTED job before a WARN job, none FAIL, and another job's FAIL
\* filtered out by the name: WARN.
C12_Witness ==
  /\ called.fn = "_dashboardStatus"
  /\ called.jobName = "job1"
  /\ called.data = <<[status |-> ABORTED, name |-> "job1"],
                     [status |-> FAIL, name |-> "job2"],
                     [status |-> WARN, name |-> "job1"]>>
  /\ called.result = WARN

\* The positions of the "job" segments of path.
JobAt(path) == {i \in 1..Len(path) : path[i] = JobSegment}

\* The segment after position i of path, empty when there is none.
SegmentAfter(path, i) == IF i < Len(path) THEN path[i + 1] ELSE <<>>

\* C14 as stated: the name of a running executor is the path segment after the
\* first "/job/" of its URL, and an idle executor's name is undefined.
C14_SegmentAfterFirstJob ==
  called.fn = "executor" =>
    LET e == called.executor IN
      /\ e.idle => called.result.name = Undefined
      /\ (~e.idle /\ JobAt(e.path) # {}) =>
            called.result.name = SegmentAfter(e.path, Min(JobAt(e.path)))

\* C14: the name of a running executor is the path segment after the last
\* "/job/" of its URL, and an idle executor's name is undefined.
C14_SegmentAfterLastJob ==
  called.fn = "executor" =>
    LET e == called.executor IN
      /\ e.idle => called.result.name = Undefined
      /\ (~e.idle /\ JobAt(e.path) # {}) =>
            called.result.name = SegmentAfter(e.path, Max(JobAt(e.path)))

\* The nested URL h/job/f/job/m/3/ gives m.
C14_Witness ==
  /\ called.fn = "executor"
  /\ called.executor.path = <<JobSegment, <<"f">>, JobSegment, <<"m">>, <<"3">>>>
  /\ called.result.name = <<"m">>

\* ----------------------------------------------------------- claims: monitor

\* The invocations of cb for read k.
CbsOf(k) == SelectSeq(mLog, LAMBDA en : en.kind = "cb" /\ en.read = k)

\* The reads started.
ReadsStarted == SelectSeq(mLog, LAMBDA en : en.kind = "read")

\* cb got the error of a failed read, or the aggregate status of the jobs the
\* read listed, only those named opts.jobName when it is given.
ErrorOrAggregate(c) ==
  IF c.answer.err \/ c.answer.status # 200
  THEN c.err # NoErr /\ c.result = Undefined
  ELSE /\ c.err = NoErr
       /\ c.result = FirstInPriority(Considered(mJobName, DashboardData(c.answer.jobs)))

\* C13: monitor starts one dashboard read at once and one per tick of the
\* schedule; every completed read has invoked cb exactly once, with the error or
\* with the aggregate status filtered by opts.jobName, and a read in flight has
\* not; another tick starts another read whether or not earlier reads failed.
C13_MonitorReads ==
  mReads # <<>> =>
    /\ Len(mReads) = 1 + mTicks
    /\ Len(ReadsStarted) = Len(mReads)
    /\ \A k \in 1..Len(mReads) :
         /\ Len(CbsOf(k)) = (IF mReads[k] = "done" THEN 1 ELSE 0)
         /\ \A i \in 1..Len(CbsOf(k)) : ErrorOrAggregate(CbsOf(k)[i])
    /\ mTicks < MaxTicks => ENABLED MonitorTick

\* The first read failed, the tick after it started a read that gave job1's
\* status, OK, though job2 is red.
C13_Witness ==
  /\ mJobName = "job1"
  /\ Len(mLog) = 4
  /\ mLog[2].kind = "cb" /\ mLog[2].read = 1 /\ mLog[2].err = TransportErr
  /\ mLog[3].kind = "read" /\ mLog[3].read = 2
  /\ mLog[4].kind = "cb" /\ mLog[4].read = 2 /\ mLog[4].answer.jobs = <<Blue, Red>>
  /\ mLog[4].result = OK

\* ------------------------------------------- claims: options between operations

\* What the request of call c carries when c is the first call on a client.
OwnOptions(c) == Carried(OptsAfter(InitOpts, c))

\* The handlers call c registers, the constructor's, and none for the other
\* statuses.
OwnHandlers(c) == {OptsAfter(InitOpts, c).handlers[st] : st \in StatusCodes}

\* C18: whatever operations completed before it, the request of an operation
\* carries only the query parameters, headers and body the operation itself
\* sets, and its answer runs only a handler the operation itself registers or
\* one of the constructor's.
C18_NoOptionLeak ==
  \A i \in 1..Len(ops) :
    /\ ops[i].request = OwnOptions(ops[i].call)
    /\ ops[i].state = "done" => ops[i].ran \in OwnHandlers(ops[i].call)

====
